---------------------------- MODULE Spec2Model ----------------------------
(***************************************************************************)
(* python_audio_ffmpeg: audio_ffmpeg / audio_atempo / audio_trim.          *)
(*                                                                         *)
(* One call of the wrapper is a small state machine: validate and build    *)
(* the command, Popen, the pipe exchange of Popen.communicate with the     *)
(* child process, the exit-status check, and the decode of the child's     *)
(* output.  The child (ffmpeg) is an opaque collaborator: it streams its   *)
(* standard input to its standard output through a bounded internal        *)
(* buffer, may write diagnostics, and may exit at any time.                *)
(***************************************************************************)
EXTENDS Integers, Sequences, FiniteSets, TLC

(* SIGKILL, sent by p.kill(); a killed child's returncode is -SIGKILL.      *)
SIGKILL == 9

(* ------------------------------ bounds -------------------------------- *)
MaxLen == 2          \* samples in the input array
MaxChannels == 2     \* nchannel ranges over 1..MaxChannels
PipeCap == 16        \* bytes an OS pipe holds when pipes are roomy
SmallPipe == 2       \* largest capacity of a pipe that is tight for the input
MaxDiag == 1         \* diagnostic bytes the child may write to stderr

(* --------------------------- small helpers ---------------------------- *)
Min(a, b) == IF a < b THEN a ELSE b

Pow256(n) == CASE n = 0 -> 1 [] n = 1 -> 256 [] n = 2 -> 65536 [] OTHER -> 16777216

RECURSIVE Flatten(_)
Flatten(ss) == IF ss = <<>> THEN <<>> ELSE Head(ss) \o Flatten(Tail(ss))

(* Optional values: None is the empty tuple, a value v is <<v>>.           *)
None == <<>>
Some(v) == <<v>>

(* ------------------------------ dtypes -------------------------------- *)
format_strings ==
    << <<"float64", "f64le">>, <<"float32", "f32le">>, <<"int16", "s16le">>,
       <<"int32", "s32le">>, <<"uint32", "u32le">> >>

SupportedDTypes == { format_strings[i][1] : i \in 1..Len(format_strings) }

(* numpy dtype attributes of the dtypes the model draws from.               *)
Kind(dt) == CASE dt \in {"float64", "float32", "float16"} -> "f"
              [] dt \in {"int8", "int16", "int32"} -> "i"
              [] dt = "uint32" -> "u"
              [] OTHER -> "U"

ItemSize(dt) == CASE dt = "float64" -> 8
                  [] dt \in {"float32", "int32", "uint32"} -> 4
                  [] dt \in {"int16", "float16"} -> 2
                  [] OTHER -> 1

(* get_format: first table entry whose dtype equals in_type, else raise     *)
(* (the empty tuple stands for the raise).                                  *)
RECURSIVE get_format_from(_, _)
get_format_from(in_type, i) ==
    IF i > Len(format_strings) THEN None
    ELSE IF in_type = format_strings[i][1] THEN Some(format_strings[i][2])
    ELSE get_format_from(in_type, i + 1)

(* Mutation: a table that also knows the 8-bit type.                        *)
get_format_with_s8(in_type) ==
    IF in_type = "int8" THEN Some("s8") ELSE get_format_from(in_type, 1)

get_format(in_type) == get_format_from(in_type, 1)

(* --------------------- array.tobytes / fromstring ---------------------- *)
(* Little-endian two's complement for the integer dtypes.                   *)
IntBytes(v, w) == [i \in 1..w |-> (v \div Pow256(i - 1)) % 256]

(* IEEE-754 little-endian bytes of the float samples the model draws.       *)
FloatBytes(v, w) ==
    LET top == CASE v = 0 -> <<0, 0>>
                 [] v = 1 -> IF w = 8 THEN <<240, 63>> ELSE <<128, 63>>
                 [] v = -1 -> IF w = 8 THEN <<240, 191>> ELSE <<128, 191>>
                 [] v = 2 -> <<0, 64>>
                 [] OTHER -> <<0, 192>>          \* -2.0
    IN  [i \in 1..(w - 2) |-> 0] \o top

SampleBytes(v, dt) ==
    IF Kind(dt) = "f" THEN FloatBytes(v, ItemSize(dt)) ELSE IntBytes(v, ItemSize(dt))

tobytes(arr, dt) == Flatten([i \in 1..Len(arr) |-> SampleBytes(arr[i], dt)])

RECURSIVE UnsignedValue(_)
UnsignedValue(bs) == IF bs = <<>> THEN 0 ELSE Head(bs) + 256 * UnsignedValue(Tail(bs))

IntValue(bs, signed) ==
    IF signed /\ bs[Len(bs)] >= 128
    THEN -(UnsignedValue([i \in 1..Len(bs) |-> 255 - bs[i]])) - 1
    ELSE UnsignedValue(bs)

FloatValue(bs) ==
    LET w == Len(bs)
        top == <<bs[w - 1], bs[w]>>
    IN  CASE top = <<0, 0>> -> 0
          [] top \in {<<240, 63>>, <<128, 63>>} -> 1
          [] top \in {<<240, 191>>, <<128, 191>>} -> -1
          [] top = <<0, 64>> -> 2
          [] OTHER -> -2

SampleValue(bs, dt) ==
    IF Kind(dt) = "f" THEN FloatValue(bs) ELSE IntValue(bs, Kind(dt) = "i")

(* numpy.fromstring(bytes, dtype): None when the byte count is not a        *)
(* multiple of the item size (ValueError).                                  *)
fromstring(bs, dt) ==
    LET w == ItemSize(dt)
    IN  IF Len(bs) % w # 0 THEN None
        ELSE Some([k \in 1..(Len(bs) \div w) |->
                     SampleValue(SubSeq(bs, (k - 1) * w + 1, k * w), dt)])

(* ndarray.astype(out): integers wrap to the target width, floats keep the  *)
(* (small, integral) value, the unicode dtype yields the printed number.    *)
astype1(v, out) ==
    CASE Kind(out) = "i" ->
           LET m == Pow256(Min(ItemSize(out), 3))
               r == v % m
           IN  IF ItemSize(out) < 4 /\ r >= m \div 2 THEN r - m
               ELSE IF ItemSize(out) < 4 THEN r ELSE v
      [] Kind(out) = "U" -> ToString(v)
      [] OTHER -> v

astype(arr, out) == [i \in 1..Len(arr) |-> astype1(arr[i], out)]

(* audio.reshape((-1, nchannel)).transpose(): None when the length is not   *)
(* divisible (ValueError), else nchannel rows, row k = samples k, k+C, ...   *)
reshape_transpose(flat, C) ==
    IF Len(flat) % C # 0 THEN None
    ELSE Some([k \in 1..C |-> [j \in 1..(Len(flat) \div C) |-> flat[(j - 1) * C + k]]])

(* ------------------------- strings and messages ------------------------ *)
RECURSIVE join(_, _)
join(sep, toks) ==
    IF toks = <<>> THEN ""
    ELSE IF Len(toks) = 1 THEN toks[1]
    ELSE toks[1] \o sep \o join(sep, Tail(toks))

linesep == "\n"

(* str(float) of a value given in tenths, and f'{timeout}' of a timeout     *)
(* given in milliseconds.                                                   *)
FloatStr(tenths) == ToString(tenths \div 10) \o "." \o ToString(tenths % 10)

Pad3(n) == IF n < 10 THEN "00" \o ToString(n)
           ELSE IF n < 100 THEN "0" \o ToString(n) ELSE ToString(n)

TimeoutStr(ms) == ToString(ms \div 1000) \o "." \o Pad3(ms % 1000)

(* bytes.decode('utf-8'): None on an invalid sequence (UnicodeDecodeError). *)
(* One- and two-byte sequences are decoded; anything else is invalid.       *)
Chr(c) == CASE c = 69 -> "E" [] c = 10 -> "\n" [] c = 233 -> "e'" [] OTHER -> "?"

RECURSIVE decode_utf8(_)
decode_utf8(bs) ==
    IF bs = <<>> THEN Some("")
    ELSE IF bs[1] < 128
         THEN LET rest == decode_utf8(Tail(bs))
              IN  IF rest = None THEN None ELSE Some(Chr(bs[1]) \o rest[1])
    ELSE IF bs[1] \in 194..223 /\ Len(bs) >= 2 /\ bs[2] \in 128..191
         THEN LET rest == decode_utf8(Tail(Tail(bs)))
                  cp == (bs[1] - 192) * 64 + (bs[2] - 128)
              IN  IF rest = None THEN None ELSE Some(Chr(cp) \o rest[1])
    ELSE None


(* ------------------------------ state ---------------------------------- *)
VARIABLES
    pc,                     \* where the call stands
    entry,                  \* the function the caller called, with its own arguments
    precheck,               \* the first check of lines 50-68 that fails, or "ok"
    array, dtype,           \* the flat input samples and array.dtype
    nchannel, sampling_rate,
    before_input_options, after_input_options,
    out_type,               \* out_type as passed
    verbose, timeout,
    command,                \* the argument list handed to Popen
    spawned,                \* Popen calls made by this call
    child,                  \* "none", "running", "exited" (zombie), "reaped"
    exit_status,            \* the status the child exited with
    returncode,             \* p.returncode: None until the child is reaped
    pipe_cap,               \* bytes each OS pipe (and the child's buffer) holds
    input_left,             \* bytes of array.tobytes() not yet written
    stdin_pipe, stdin_open, \* child's stdin pipe, parent's write end open
    held,                   \* child's internal buffer
    stdout_pipe, stdout_open, stdout_bytes,
    stderr_pipe, stderr_open, stderr_bytes,
    diag_left,              \* diagnostic bytes the child may still write
    copied,                 \* the child read to EOF and wrote all it read
    expired,                \* communicate raised TimeoutExpired
    outcome,                \* branch taken after the exchange
    exc, mes,               \* the exception leaving the call and its message
    result                  \* the returned buffer

argvars == <<entry, precheck, array, dtype, nchannel, sampling_rate, before_input_options,
             after_input_options, out_type, verbose, timeout>>
parentvars == <<input_left, stdin_open, stdout_open, stdout_bytes, stderr_open,
                stderr_bytes, returncode>>
childvars == <<child, exit_status, held, diag_left, copied>>
pipevars == <<stdin_pipe, stdout_pipe, stderr_pipe, pipe_cap>>
endvars == <<expired, outcome, exc, mes, result>>
vars == <<pc, argvars, command, spawned, parentvars, childvars, pipevars, endvars>>

(* ------------------------------ inputs --------------------------------- *)
Samples(dt) == IF Kind(dt) = "u" THEN {0, 1} ELSE {0, -1}

(* Which isinstance check of lines 53-68 the arguments fail.                *)
Faults == {"array", "nchannel", "sampling_rate", "after_input_options",
           "before_input_options", "verbose"}

ExitCodes == {0, 1}

(* The bytes a diagnostic is made of: "E", and 0xFF, which is not UTF-8.    *)
DiagBytes == {69, 255}

(* out_type as passed: None, a numpy.dtype, a str, or something else        *)
(* (for instance the class numpy.float32).                                  *)
OutTypes == {None, <<"dtype", "float32">>, <<"dtype", "int8">>,
             <<"str", "float32">>, <<"type", "float32">>}

OptionLists == {<<>>, <<"-y", "-y">>, <<"-vn", "-sn">>}

AllDTypes == SupportedDTypes \cup {"int8"}

(* The arguments of one call.  precheck names the first check of lines      *)
(* 50-68 the call fails ("ok": none): the tool missing from PATH, or the    *)
(* argument that fails its isinstance check.  d gives the sets to draw      *)
(* from; the array is any sequence of d.lens samples of the dtype.          *)
ArgsOver(d) ==
    UNION { [precheck : d.prechecks, dtype : {dt},
             array : UNION { [1..n -> Samples(dt) \cap d.samples] : n \in d.lens },
             nchannel : d.chans, sampling_rate : d.rates,
             before_input_options : d.befores, after_input_options : d.afters,
             out_type : d.outs, verbose : BOOLEAN, timeout : {None, Some(1)}] :
            dt \in d.dtypes }

(* Calls that exercise the exchange and the decode: every array of every    *)
(* dtype, no options of the caller's own.                                   *)
Args ==
    ArgsOver([prechecks |-> {"ok"}, dtypes |-> AllDTypes, lens |-> 0..MaxLen,
              samples |-> {-1, 0, 1}, chans |-> 1..MaxChannels, rates |-> {16000},
              befores |-> {<<>>}, afters |-> {<<>>}, outs |-> OutTypes])

Tempos == {20}       \* tempo in tenths: 2.0

(* Calls that exercise the validation and the command line: every option    *)
(* list, rate and failing check, on a one-sample array of silence.          *)
CmdArgs ==
    ArgsOver([prechecks |-> {"ok"}, dtypes |-> AllDTypes, lens |-> {1},
              samples |-> {0}, chans |-> 1..MaxChannels, rates |-> {8000, 16000},
              befores |-> OptionLists, afters |-> OptionLists, outs |-> OutTypes])
    \cup
    ArgsOver([prechecks |-> Faults \cup {"ffmpeg"}, dtypes |-> AllDTypes, lens |-> {1},
              samples |-> {0}, chans |-> {1}, rates |-> {16000},
              befores |-> {<<>>}, afters |-> {<<>>}, outs |-> OutTypes])

CmdTempos == {5, 10, 20}       \* 0.5, 1.0, 2.0

(* Calls that exercise the pipes: buffers of every length through pipes     *)
(* that are tight for them.                                                 *)
PipeArgs ==
    ArgsOver([prechecks |-> {"ok"}, dtypes |-> {"int16"}, lens |-> 0..MaxLen,
              samples |-> {0}, chans |-> {1}, rates |-> {16000},
              befores |-> {<<>>}, afters |-> {<<>>}, outs |-> {None}])

Init ==
    /\ pc = "idle"
    /\ entry = <<>> /\ precheck = "ok"
    /\ array = <<>> /\ dtype = "int16" /\ nchannel = 1 /\ sampling_rate = 16000
    /\ before_input_options = <<>> /\ after_input_options = <<>>
    /\ out_type = None /\ verbose = FALSE /\ timeout = None
    /\ command = <<>> /\ spawned = 0
    /\ child = "none" /\ exit_status = 0 /\ returncode = None /\ pipe_cap = 0
    /\ input_left = <<>> /\ stdin_pipe = <<>> /\ stdin_open = FALSE
    /\ held = <<>>
    /\ stdout_pipe = <<>> /\ stdout_open = FALSE /\ stdout_bytes = <<>>
    /\ stderr_pipe = <<>> /\ stderr_open = FALSE /\ stderr_bytes = <<>>
    /\ diag_left = 0
    /\ copied = FALSE /\ expired = FALSE /\ outcome = "none"
    /\ exc = "none" /\ mes = <<>> /\ result = None

(* ----------------------- audio_ffmpeg, lines 50-80 --------------------- *)
(* Lines 69-74: None -> array.dtype; a str -> numpy.dtype(str), the unicode *)
(* dtype, whatever the string names; a numpy.dtype is kept; anything else   *)
(* is a TypeError (None here).                                              *)
resolve_out_type(ot, in_dtype) ==
    IF ot = None THEN Some(in_dtype)
    ELSE IF ot[1] = "str" THEN Some("<U0")
    ELSE IF ot[1] = "dtype" THEN Some(ot[2])
    ELSE None

(* Mutation: the two option lists on the wrong sides of the input.          *)
build_command_swapped(fmt, rate, nch, before, after) ==
    <<"ffmpeg", "-f", fmt, "-ar", ToString(rate), "-ac", ToString(nch)>>
    \o after \o <<"-i", "pipe:0">> \o before
    \o <<"-f", fmt, "-ar", ToString(rate), "-ac", ToString(nch), "-">>

build_command(fmt, rate, nch, before, after) ==
    <<"ffmpeg", "-f", fmt, "-ar", ToString(rate), "-ac", ToString(nch)>>
    \o before \o <<"-i", "pipe:0">> \o after
    \o <<"-f", fmt, "-ar", ToString(rate), "-ac", ToString(nch), "-">>

Raise(tag, message) ==
    /\ pc' = "raised"
    /\ exc' = tag
    /\ mes' = message

(* The call up to the Popen of line 81: the checks in their order, then the *)
(* command.  e names the caller's entry point.                              *)
audio_ffmpeg(e, a) ==
    /\ entry' = e /\ precheck' = a.precheck
    /\ array' = a.array /\ dtype' = a.dtype
    /\ nchannel' = a.nchannel /\ sampling_rate' = a.sampling_rate
    /\ before_input_options' = a.before_input_options
    /\ after_input_options' = a.after_input_options
    /\ out_type' = a.out_type
    /\ verbose' = a.verbose /\ timeout' = a.timeout
    /\ LET fmt == get_format(a.dtype)
       IN  IF a.precheck = "ffmpeg"
           THEN Raise("ToolNotFound", <<"command not found: ffmpeg. Please install">>)
                /\ UNCHANGED command
           ELSE IF a.precheck # "ok"
           THEN Raise("TypeError", <<a.precheck>>) /\ UNCHANGED command
           ELSE IF resolve_out_type(a.out_type, a.dtype) = None
           THEN Raise("TypeError", <<"out_type">>) /\ UNCHANGED command
           ELSE IF fmt = None
           THEN Raise("UnsupportedType", <<"Not supported type: ", a.dtype>>)
                /\ UNCHANGED command
           ELSE /\ pc' = "built"
                /\ command' = build_command(fmt[1], a.sampling_rate, a.nchannel,
                                            a.before_input_options,
                                            a.after_input_options)
                /\ UNCHANGED <<exc, mes>>
    /\ UNCHANGED <<spawned, parentvars, childvars, pipevars, expired, outcome, result>>

(* audio_atempo, lines 153-164: before_input_options is not passed.         *)
(* Mutation: the filter is passed whatever the tempo.                       *)
atempo_options_always(tempo) == <<"-af", "atempo=" \o FloatStr(tempo)>>

atempo_options(tempo) ==
    IF tempo = 10 THEN <<>> ELSE <<"-af", "atempo=" \o FloatStr(tempo)>>

audio_atempo(a, tempo) ==
    audio_ffmpeg(<<"audio_atempo", tempo>>,
                 [a EXCEPT !.before_input_options = <<>>,
                           !.after_input_options = atempo_options(tempo)])

(* audio_trim, lines 189-196.                                               *)
trim_options(time_offset, duration) ==
    <<"-ss", ToString(time_offset), "-t", ToString(duration)>>

audio_trim(a, time_offset, duration) ==
    audio_ffmpeg(<<"audio_trim", time_offset, duration>>,
                 [a EXCEPT !.before_input_options = <<>>,
                           !.after_input_options = trim_options(time_offset, duration)])

(* The dtype the result is converted to.                                    *)
OutDType == resolve_out_type(out_type, dtype)[1]

(* ------------------- Popen and communicate, lines 81-92 ---------------- *)
(* Popen with stdin and stdout piped, stderr piped unless verbose; then the *)
(* start of communicate(input=array.tobytes()): an empty input closes the   *)
(* child's stdin at once.  The pipes' capacity is the system's.             *)
Popen(caps) ==
    /\ pc = "built"
    /\ pc' = "communicate"
    /\ spawned' = spawned + 1
    /\ child' = "running"
    /\ \E c \in caps : pipe_cap' = c
    /\ input_left' = tobytes(array, dtype)
    /\ stdin_open' = (input_left' # <<>>)
    /\ stdout_open' = TRUE
    /\ stderr_open' = ~verbose
    /\ diag_left' = MaxDiag
    /\ UNCHANGED <<argvars, command, stdout_bytes, stderr_bytes, returncode,
                   exit_status, held, copied, stdin_pipe, stdout_pipe,
                   stderr_pipe, endvars>>

(* communicate, stdin writable: write what fits of the rest and close after *)
(* the last byte; a dead reader is a BrokenPipeError, answered by closing.  *)
ParentWrite ==
    /\ pc = "communicate"
    /\ stdin_open
    /\ IF child # "running"
       THEN /\ stdin_open' = FALSE
            /\ UNCHANGED <<input_left, stdin_pipe>>
       ELSE /\ Len(stdin_pipe) < pipe_cap
            /\ LET n == Min(pipe_cap - Len(stdin_pipe), Len(input_left))
               IN  /\ stdin_pipe' = stdin_pipe \o SubSeq(input_left, 1, n)
                   /\ input_left' = SubSeq(input_left, n + 1, Len(input_left))
                   /\ stdin_open' = (n < Len(input_left))
    /\ UNCHANGED <<pc, argvars, command, spawned, stdout_open, stdout_bytes,
                   stderr_open, stderr_bytes, returncode, childvars,
                   stdout_pipe, stderr_pipe, pipe_cap, endvars>>

(* Mutation: the output is read only once the input has been written, as   *)
(* p.stdin.write(...) followed by p.stdout.read() would.                    *)
ParentReadStdout_AfterWrite ==
    /\ pc = "communicate"
    /\ stdout_open
    /\ ~stdin_open
    /\ IF stdout_pipe # <<>>
       THEN /\ stdout_bytes' = stdout_bytes \o stdout_pipe
            /\ stdout_pipe' = <<>>
            /\ UNCHANGED stdout_open
       ELSE /\ child # "running"
            /\ stdout_open' = FALSE
            /\ UNCHANGED <<stdout_bytes, stdout_pipe>>
    /\ UNCHANGED <<pc, argvars, command, spawned, input_left, stdin_open,
                   stderr_open, stderr_bytes, returncode, childvars,
                   stdin_pipe, stderr_pipe, pipe_cap, endvars>>

(* communicate, stdout readable: take what the pipe holds; an empty pipe    *)
(* whose writer is gone is the end of the stream.                           *)
ParentReadStdout ==
    /\ pc = "communicate"
    /\ stdout_open
    /\ IF stdout_pipe # <<>>
       THEN /\ stdout_bytes' = stdout_bytes \o stdout_pipe
            /\ stdout_pipe' = <<>>
            /\ UNCHANGED stdout_open
       ELSE /\ child # "running"
            /\ stdout_open' = FALSE
            /\ UNCHANGED <<stdout_bytes, stdout_pipe>>
    /\ UNCHANGED <<pc, argvars, command, spawned, input_left, stdin_open,
                   stderr_open, stderr_bytes, returncode, childvars,
                   stdin_pipe, stderr_pipe, pipe_cap, endvars>>

ParentReadStderr ==
    /\ pc = "communicate"
    /\ stderr_open
    /\ IF stderr_pipe # <<>>
       THEN /\ stderr_bytes' = stderr_bytes \o stderr_pipe
            /\ stderr_pipe' = <<>>
            /\ UNCHANGED stderr_open
       ELSE /\ child # "running"
            /\ stderr_open' = FALSE
            /\ UNCHANGED <<stderr_bytes, stderr_pipe>>
    /\ UNCHANGED <<pc, argvars, command, spawned, input_left, stdin_open,
                   stdout_open, stdout_bytes, returncode, childvars,
                   stdin_pipe, stdout_pipe, pipe_cap, endvars>>

(* communicate returns: every stream is closed, wait() reaps the child.     *)
CommunicateReturn ==
    /\ pc = "communicate"
    /\ ~stdin_open /\ ~stdout_open /\ ~stderr_open
    /\ child = "exited"
    /\ child' = "reaped"
    /\ returncode' = Some(exit_status)
    /\ pc' = "check"
    /\ UNCHANGED <<argvars, command, spawned, input_left, stdin_open, stdout_open,
                   stdout_bytes, stderr_open, stderr_bytes, exit_status, held,
                   diag_left, copied, pipevars, endvars>>

(* ------------------------------ the child ------------------------------ *)
(* ffmpeg as the wrapper sees it: it reads its stdin into a buffer, writes  *)
(* the buffer to its stdout, and blocks on a full or an empty pipe.         *)
ChildRead ==
    /\ pc = "communicate" /\ child = "running"
    /\ stdin_pipe # <<>>
    /\ Len(held) < pipe_cap
    /\ LET n == Min(pipe_cap - Len(held), Len(stdin_pipe))
       IN  /\ held' = held \o SubSeq(stdin_pipe, 1, n)
           /\ stdin_pipe' = SubSeq(stdin_pipe, n + 1, Len(stdin_pipe))
    /\ UNCHANGED <<pc, argvars, command, spawned, parentvars, child, exit_status,
                   diag_left, copied, stdout_pipe, stderr_pipe, pipe_cap, endvars>>

ChildWrite ==
    /\ pc = "communicate" /\ child = "running"
    /\ held # <<>>
    /\ Len(stdout_pipe) < pipe_cap
    /\ LET n == Min(pipe_cap - Len(stdout_pipe), Len(held))
       IN  /\ stdout_pipe' = stdout_pipe \o SubSeq(held, 1, n)
           /\ held' = SubSeq(held, n + 1, Len(held))
    /\ UNCHANGED <<pc, argvars, command, spawned, parentvars, child, exit_status,
                   diag_left, copied, stdin_pipe, stderr_pipe, pipe_cap, endvars>>

(* The child writes one diagnostic byte: to the pipe, when it has room, or  *)
(* to the inherited terminal when verbose.                                  *)
ChildWriteStderr ==
    /\ pc = "communicate" /\ child = "running"
    /\ diag_left > 0
    /\ diag_left' = diag_left - 1
    /\ IF verbose
       THEN UNCHANGED stderr_pipe
       ELSE /\ Len(stderr_pipe) < pipe_cap
            /\ \E b \in DiagBytes : stderr_pipe' = Append(stderr_pipe, b)
    /\ UNCHANGED <<pc, argvars, command, spawned, parentvars, child, exit_status,
                   held, copied, stdin_pipe, stdout_pipe, pipe_cap, endvars>>

AtEOF == ~stdin_open /\ stdin_pipe = <<>>

(* The child exits with status rc after writing k more bytes of its buffer. *)
ChildExits(rc, k) ==
    /\ child' = "exited"
    /\ exit_status' = rc
    /\ copied' = (AtEOF /\ k = Len(held))
    /\ stdout_pipe' = stdout_pipe \o SubSeq(held, 1, k)
    /\ held' = <<>> /\ stdin_pipe' = <<>>
    /\ UNCHANGED <<pc, argvars, command, spawned, parentvars, diag_left,
                   stderr_pipe, pipe_cap, endvars>>

(* The child has read its input to the end and written all of it.           *)
ChildFinish ==
    /\ pc = "communicate" /\ child = "running"
    /\ AtEOF /\ held = <<>>
    /\ \E rc \in ExitCodes : ChildExits(rc, 0)

(* How much of its buffer a child that stops early still writes: nothing,   *)
(* all of it, all but the last byte, or all but the last sample.            *)
LastWrites(buf, room, w) ==
    { k \in {0, Len(buf), Len(buf) - 1, Len(buf) - w} : 0 <= k /\ k <= room }

(* The child stops early: an error, a crash, a trim window that has ended.  *)
ChildAbort ==
    /\ pc = "communicate" /\ child = "running"
    /\ ~(AtEOF /\ held = <<>>)
    /\ \E rc \in ExitCodes :
         \E k \in LastWrites(held, pipe_cap - Len(stdout_pipe), ItemSize(dtype)) :
            ChildExits(rc, k)

(* -------------------- TimeoutExpired, lines 93-105 --------------------- *)
(* The verbose message is the separator 'TimeoutExpired: {timeout}[s].  '   *)
(* joined over the command's tokens: the two adjacent literals of lines     *)
(* 98-99 are one string, and .join applies to all of it.                    *)
timeout_message(isVerbose, t, cmd, err) ==
    IF isVerbose
    THEN Some(<<join("TimeoutExpired: " \o TimeoutStr(t) \o "[s]. " \o " ", cmd)>>)
    ELSE LET text == decode_utf8(err)
         IN  IF text = None THEN None
             ELSE Some(<<"TimeoutExpired: " \o TimeoutStr(t) \o "[s]. ",
                         join(" ", cmd), linesep, text[1]>>)

(* Mutation: the handler raises at once, with no kill and no second         *)
(* communicate, and nothing waits for the child.                            *)
TimeoutExpired_NoKill ==
    /\ pc = "communicate"
    /\ timeout # None
    /\ expired' = TRUE
    /\ outcome' = "timeout"
    /\ Raise("Timeout", <<"TimeoutExpired: " \o TimeoutStr(timeout[1]) \o "[s]. ">>)
    /\ UNCHANGED <<argvars, command, spawned, parentvars, childvars, pipevars, result>>

(* communicate raises TimeoutExpired; the handler kills the child, the      *)
(* second communicate() reads what the pipes still hold and reaps it, and   *)
(* the RuntimeError (or the decode's own error) leaves the with block.      *)
TimeoutExpired ==
    /\ pc = "communicate"
    /\ timeout # None
    /\ expired' = TRUE
    /\ outcome' = "timeout"
    /\ child' = "reaped"
    /\ exit_status' = IF child = "running" THEN -SIGKILL ELSE exit_status
    /\ returncode' = Some(exit_status')
    /\ stdout_bytes' = stdout_bytes \o stdout_pipe
    /\ stderr_bytes' = stderr_bytes \o stderr_pipe
    /\ stdin_pipe' = <<>> /\ stdout_pipe' = <<>> /\ stderr_pipe' = <<>>
    /\ stdin_open' = FALSE /\ stdout_open' = FALSE /\ stderr_open' = FALSE
    /\ held' = <<>>
    /\ UNCHANGED pipe_cap
    /\ LET m == timeout_message(verbose, timeout[1], command, stderr_bytes')
       IN  IF m = None
           THEN Raise("UnicodeDecodeError", <<"'utf-8' codec can't decode">>)
           ELSE Raise("Timeout", m[1])
    /\ UNCHANGED <<argvars, command, spawned, input_left, diag_left, copied, result>>

(* ----------------------- exit check, lines 107-112 --------------------- *)
(* stdout is always piped, so stdout_bytes is never None.                   *)
(* Mutation: the diagnostics are appended whether verbose or not.           *)
failure_message_with_stderr(isVerbose, cmd, err) ==
    LET text == decode_utf8(err)
    IN  IF text = None THEN None ELSE Some(<<join(" ", cmd), linesep, text[1]>>)

failure_message(isVerbose, cmd, err) ==
    IF isVerbose
    THEN Some(<<join(" ", cmd)>>)
    ELSE LET text == decode_utf8(err)
         IN  IF text = None THEN None
             ELSE Some(<<join(" ", cmd), linesep, text[1]>>)

CheckExit ==
    /\ pc = "check"
    /\ IF returncode[1] # 0
       THEN /\ outcome' = "failure"
            /\ LET m == failure_message(verbose, command, stderr_bytes)
               IN  IF m = None
                   THEN Raise("UnicodeDecodeError", <<"'utf-8' codec can't decode">>)
                   ELSE Raise("ProcessFailure", m[1])
       ELSE /\ outcome' = "success"
            /\ pc' = "decode"
            /\ UNCHANGED <<exc, mes>>
    /\ UNCHANGED <<argvars, command, spawned, parentvars, childvars, pipevars,
                   expired, result>>

(* --------------------------- decode, lines 114-130 --------------------- *)
(* Line 123 reads the name normalize, which nothing defines: a non-empty    *)
(* float result raises NameError and lines 124-128 never run.               *)
Decode ==
    /\ pc = "decode"
    /\ LET parsed == fromstring(stdout_bytes, dtype)
           audio == IF parsed = None THEN <<>> ELSE astype(parsed[1], OutDType)
           shaped == IF nchannel > 1 THEN reshape_transpose(audio, nchannel)
                     ELSE Some(audio)
       IN  IF parsed = None
           THEN Raise("ValueError", <<"string size must be a multiple of element size">>)
                /\ UNCHANGED result
           ELSE IF shaped = None
           THEN Raise("ValueError", <<"cannot reshape array">>) /\ UNCHANGED result
           ELSE IF Len(audio) # 0 /\ Kind(OutDType) = "f"
           THEN Raise("NameError", <<"name 'normalize' is not defined">>)
                /\ UNCHANGED result
           ELSE /\ pc' = "returned"
                /\ result' = Some([ndim |-> IF nchannel > 1 THEN 2 ELSE 1,
                                   data |-> shaped[1]])
                /\ UNCHANGED <<exc, mes>>
    /\ UNCHANGED <<argvars, command, spawned, parentvars, childvars, pipevars,
                   expired, outcome>>

(* The caller has its buffer or its exception; every local of the call is   *)
(* gone and the next call starts afresh.                                    *)
Return ==
    /\ pc \in {"returned", "raised"}
    /\ pc' = "idle"
    /\ entry' = <<>> /\ precheck' = "ok"
    /\ array' = <<>> /\ dtype' = "int16" /\ nchannel' = 1 /\ sampling_rate' = 16000
    /\ before_input_options' = <<>> /\ after_input_options' = <<>>
    /\ out_type' = None /\ verbose' = FALSE /\ timeout' = None
    /\ command' = <<>> /\ spawned' = 0
    /\ child' = "none" /\ exit_status' = 0 /\ returncode' = None /\ pipe_cap' = 0
    /\ input_left' = <<>> /\ stdin_pipe' = <<>> /\ stdin_open' = FALSE
    /\ held' = <<>>
    /\ stdout_pipe' = <<>> /\ stdout_open' = FALSE /\ stdout_bytes' = <<>>
    /\ stderr_pipe' = <<>> /\ stderr_open' = FALSE /\ stderr_bytes' = <<>>
    /\ diag_left' = 0
    /\ copied' = FALSE /\ expired' = FALSE /\ outcome' = "none"
    /\ exc' = "none" /\ mes' = <<>> /\ result' = None

(* ---------------------------- specification ---------------------------- *)
(* The callers' three entry points, over the argument sets a specification  *)
(* draws from.                                                              *)
Call_audio_ffmpeg(args) ==
    pc = "idle" /\ \E a \in args : audio_ffmpeg(<<"audio_ffmpeg">>, a)

Call_audio_atempo(args, tempos) ==
    pc = "idle" /\ \E a \in args, tempo \in tempos : audio_atempo(a, tempo)

Call_audio_trim(args) == pc = "idle" /\ \E a \in args : audio_trim(a, 0, 1)

Parent ==
    \/ ParentWrite
    \/ ParentReadStdout
    \/ ParentReadStderr
    \/ CommunicateReturn
    \/ TimeoutExpired
    \/ CheckExit
    \/ Decode

Child ==
    \/ ChildRead
    \/ ChildWrite
    \/ ChildWriteStderr
    \/ ChildFinish
    \/ ChildAbort

Calls(args, tempos) ==
    \/ Call_audio_ffmpeg(args)
    \/ Call_audio_atempo(args, tempos)
    \/ Call_audio_trim(args)

Next == Calls(Args, Tempos) \/ Popen({PipeCap}) \/ Parent \/ Child \/ Return

Spec == Init /\ [][Next]_vars

NextCmd == Calls(CmdArgs, CmdTempos) \/ Popen({PipeCap}) \/ Parent \/ Child \/ Return

SpecCmd == Init /\ [][NextCmd]_vars

(* The operating system schedules both processes: a step of the parent's    *)
(* communicate loop, or of the child's copy loop, that stays possible is    *)
(* taken.  Nothing obliges the timeout to elapse or the child to stop early.*)
ParentStep ==
    \/ ParentWrite \/ ParentReadStdout \/ ParentReadStderr \/ CommunicateReturn
    \/ CheckExit \/ Decode

ChildStep == ChildRead \/ ChildWrite \/ ChildFinish

NextPipe ==
    Calls(PipeArgs, Tempos) \/ Popen(1..SmallPipe) \/ Parent \/ Child \/ Return

SpecPipe == Init /\ [][NextPipe]_vars /\ WF_vars(ParentStep) /\ WF_vars(ChildStep)

(* ------------------------------- claims -------------------------------- *)
Ended == pc \in {"returned", "raised"}

(* The samples numpy.fromstring reads from the child's output.              *)
Decoded == fromstring(stdout_bytes, dtype)

(* The returned buffer as rows: a one-dimensional result is one row.        *)
ResultRows == IF result[1].ndim = 1 THEN <<result[1].data>> ELSE result[1].data

(* The returned buffer read back in interleaved (time-major) order.         *)
Interleaved ==
    LET rows == ResultRows
        C == Len(rows)
        N == Len(rows[1])
    IN  [i \in 1..(C * N) |-> rows[((i - 1) % C) + 1][((i - 1) \div C) + 1]]

Count(tok, toks) == Cardinality({ i \in 1..Len(toks) : toks[i] = tok })

(* C1: when the timeout elapses with the child still running, the call     *)
(* ends by raising the Timeout error, returns no buffer, and leaves the     *)
(* child killed and reaped with its pipes drained.                          *)
C1_TimeoutRaisesTimeout ==
    (Ended /\ expired /\ returncode = Some(-SIGKILL))
        => /\ pc = "raised" /\ exc = "Timeout"
           /\ result = None
           /\ child = "reaped"
           /\ stdout_pipe = <<>> /\ stderr_pipe = <<>>

(* C1, what does hold: every timed-out call is raised out of, by the        *)
(* Timeout error or by the decode error of its message, with the child      *)
(* reaped, the pipes drained, and no buffer.                                *)
C1_TimeoutKillsAndRaises ==
    (Ended /\ expired)
        => /\ pc = "raised" /\ exc \in {"Timeout", "UnicodeDecodeError"}
           /\ (exc = "UnicodeDecodeError"
                 <=> (~verbose /\ decode_utf8(stderr_bytes) = None))
           /\ result = None
           /\ child = "reaped"
           /\ stdout_pipe = <<>> /\ stderr_pipe = <<>>

(* The timeout message could not be built: the diagnostics are not UTF-8.   *)
C1_DecodeErrorOnTimeout ==
    /\ pc = "raised" /\ expired /\ returncode = Some(-SIGKILL)
    /\ ~verbose /\ stderr_bytes = <<255>> /\ exc = "UnicodeDecodeError"

(* C2 as stated: a call whose child exited non-zero fails with the          *)
(* Process-Failure error, whose message holds the exit status and, unless   *)
(* verbose, the diagnostic text; no buffer is returned.                     *)
C2_FailureEmbedsStatus ==
    (Ended /\ outcome = "failure")
        => /\ pc = "raised" /\ exc = "ProcessFailure" /\ result = None
           /\ \E i \in 1..Len(mes) : mes[i] = ToString(returncode[1])
           /\ verbose => Len(mes) <= 2

(* C2 as amended: a call whose child exited non-zero returns no buffer and  *)
(* fails; the Process-Failure message is the command line, followed unless  *)
(* verbose by a line separator and the decoded diagnostics, and holds no    *)
(* exit status; diagnostics that are not UTF-8 make the call fail with the  *)
(* decode's error instead.  A buffer is returned only after exit status 0.  *)
C2_FailureMessage ==
    /\ (pc \in {"decode", "returned"}) => returncode = Some(0)
    /\ (Ended /\ outcome = "failure")
        => /\ pc = "raised" /\ result = None /\ returncode[1] # 0
           /\ IF ~verbose /\ decode_utf8(stderr_bytes) = None
              THEN exc = "UnicodeDecodeError"
              ELSE /\ exc = "ProcessFailure"
                   /\ mes[1] = join(" ", command)
                   /\ Len(mes) = IF verbose THEN 1 ELSE 3
                   /\ ~verbose => mes[2] = linesep /\ mes[3] = decode_utf8(stderr_bytes)[1]
                   /\ \A i \in 1..Len(mes) : mes[i] # ToString(returncode[1])

C2_Witness ==
    /\ Ended /\ outcome = "failure" /\ exc = "ProcessFailure"
    /\ ~verbose /\ stderr_bytes = <<69>> /\ returncode = Some(1)

(* The output type the caller asked for: array.dtype when none is given.    *)
RequestedOut == IF out_type = None THEN dtype ELSE out_type[2]

(* C3 as stated: a call whose input type or requested output type is not    *)
(* one of the five supported types fails with the Unsupported-Type error    *)
(* and spawns nothing (calls that fail an earlier check are left aside).    *)
C3_UnsupportedTypesFailFast ==
    (pc # "idle" /\ exc \notin {"ToolNotFound", "TypeError"}
       /\ (dtype \notin SupportedDTypes \/ RequestedOut \notin SupportedDTypes))
        => pc = "raised" /\ exc = "UnsupportedType" /\ spawned = 0

(* C3 as amended: a call whose input type is not one of the five supported  *)
(* types fails before anything is spawned, with the Unsupported-Type error  *)
(* unless an earlier check fails first; and only such a call raises it.     *)
C3_UnsupportedInputFailsFast ==
    /\ (pc # "idle" /\ dtype \notin SupportedDTypes)
        => /\ pc = "raised" /\ spawned = 0 /\ child = "none" /\ command = <<>>
           /\ exc = IF precheck = "ffmpeg" THEN "ToolNotFound"
                    ELSE IF precheck # "ok" \/ (out_type # None /\ out_type[1] = "type")
                         THEN "TypeError"
                    ELSE "UnsupportedType"
    /\ exc = "UnsupportedType" => dtype \notin SupportedDTypes /\ spawned = 0

C3_Witness ==
    /\ pc = "raised" /\ exc = "UnsupportedType" /\ dtype = "int8"
    /\ out_type = <<"dtype", "float32">> /\ spawned = 0

(* The raw-format tag of each supported type.                               *)
FormatTag(dt) == CASE dt = "float64" -> "f64le" [] dt = "float32" -> "f32le"
                   [] dt = "int16" -> "s16le" [] dt = "int32" -> "s32le"
                   [] dt = "uint32" -> "u32le"

(* C4: the command is the tool, the input format, rate and channels, the    *)
(* before-input options, '-i' and the standard input, the after-input       *)
(* options, the same format, rate and channels, and '-': each list whole,   *)
(* in order, on its side of the input.                                      *)
C4_CommandLayout ==
    command # <<>> =>
        LET B == before_input_options
            A == after_input_options
            decl == <<"-f", FormatTag(dtype), "-ar", ToString(sampling_rate),
                      "-ac", ToString(nchannel)>>
        IN  /\ Len(command) = 16 + Len(B) + Len(A)
            /\ command[1] = "ffmpeg"
            /\ SubSeq(command, 2, 7) = decl
            /\ SubSeq(command, 8, 7 + Len(B)) = B
            /\ command[8 + Len(B)] = "-i" /\ command[9 + Len(B)] = "pipe:0"
            /\ SubSeq(command, 10 + Len(B), 9 + Len(B) + Len(A)) = A
            /\ SubSeq(command, 10 + Len(B) + Len(A), 15 + Len(B) + Len(A)) = decl
            /\ command[Len(command)] = "-"

C4_Witness ==
    /\ pc = "built" /\ entry = <<"audio_ffmpeg">>
    /\ before_input_options = <<"-y", "-y">> /\ after_input_options = <<"-vn", "-sn">>
    /\ sampling_rate = 8000 /\ nchannel = 2 /\ dtype = "uint32"

(* C5: audio_atempo passes no option at tempo 1.0, and otherwise exactly    *)
(* one '-af' filter, which names the tempo, after the input; it passes      *)
(* nothing before the input.                                                *)
C5_TempoFilter ==
    (command # <<>> /\ entry # <<>> /\ entry[1] = "audio_atempo") =>
        LET tempo == entry[2]
            text == CASE tempo = 5 -> "atempo=0.5" [] tempo = 20 -> "atempo=2.0"
                      [] tempo = 30 -> "atempo=3.0" [] OTHER -> "atempo=1.0"
        IN  /\ before_input_options = <<>>
            /\ command[8] = "-i"
            /\ IF tempo = 10
               THEN /\ after_input_options = <<>>
                    /\ Len(command) = 16
                    /\ \A i \in 1..Len(command) :
                          command[i] # "-af" /\ command[i] # "atempo=1.0"
               ELSE /\ Len(command) = 18
                    /\ Count("-af", command) = 1
                    /\ command[10] = "-af" /\ command[11] = text

C5_Witness ==
    /\ pc = "built" /\ entry = <<"audio_atempo", 5>>
    /\ after_input_options = <<"-af", "atempo=0.5">>

(* C6: with no options and the output type of the input, a child that       *)
(* copies its input and exits 0 makes the call return the input's samples.  *)
C6_RoundTrip ==
    (/\ Ended /\ spawned = 1 /\ ~expired
     /\ before_input_options = <<>> /\ after_input_options = <<>>
     /\ out_type \in {None, <<"dtype", dtype>>}
     /\ copied /\ returncode = Some(0)
     /\ Len(array) % nchannel = 0)
        => pc = "returned" /\ Interleaved = array

(* C6, what does hold: the same for the integer types, and for the empty    *)
(* buffer of any type.                                                      *)
C6_RoundTripIntegers ==
    (/\ Ended /\ spawned = 1 /\ ~expired
     /\ before_input_options = <<>> /\ after_input_options = <<>>
     /\ out_type \in {None, <<"dtype", dtype>>}
     /\ copied /\ returncode = Some(0)
     /\ Len(array) % nchannel = 0
     /\ (Kind(dtype) # "f" \/ array = <<>>))
        => pc = "returned" /\ Interleaved = array

(* A copied floating-point buffer ends in the NameError of line 123.        *)
C6_NameErrorOnCopy ==
    /\ pc = "raised" /\ exc = "NameError" /\ copied /\ returncode = Some(0)
    /\ dtype = "float64" /\ out_type = None /\ nchannel = 1 /\ Len(array) = MaxLen

(* C7: a non-empty, all-zero decoded sequence with a floating-point output  *)
(* type is returned, all zero.                                              *)
C7_AllZeroReturned ==
    (/\ Ended /\ outcome = "success" /\ Kind(OutDType) = "f"
     /\ Decoded # None /\ Decoded[1] # <<>>
     /\ \A i \in 1..Len(Decoded[1]) : Decoded[1][i] = 0
     /\ Len(Decoded[1]) % nchannel = 0)
        => /\ pc = "returned"
           /\ \A k \in 1..Len(ResultRows) :
                 \A j \in 1..Len(ResultRows[k]) : ResultRows[k][j] = 0

(* Silence decoded as floating point ends in the NameError of line 123.     *)
C7_NameErrorOnSilence ==
    /\ pc = "raised" /\ exc = "NameError" /\ dtype = "float32" /\ nchannel = 1
    /\ Decoded = Some(<<0>>)

(* C8: with more than one channel, a decoded sequence of nchannel * N       *)
(* samples is returned as nchannel rows of N, row k holding samples k,      *)
(* k + nchannel, ...; any other length raises the decode's ValueError.      *)
C8_ChannelRows ==
    (Ended /\ outcome = "success" /\ nchannel > 1 /\ Decoded # None) =>
        LET flat == astype(Decoded[1], OutDType)
            N == Len(flat) \div nchannel
        IN  IF Len(flat) % nchannel = 0
            THEN /\ pc = "returned"
                 /\ result[1].ndim = 2
                 /\ Len(result[1].data) = nchannel
                 /\ \A k \in 1..nchannel :
                       /\ Len(result[1].data[k]) = N
                       /\ \A j \in 1..N : result[1].data[k][j] = flat[(j - 1) * nchannel + k]
            ELSE pc = "raised" /\ exc = "ValueError"

(* C8, what does hold: the same, for every output type that is not          *)
(* floating-point or every empty result.                                    *)
C8_ChannelRowsNonFloat ==
    (/\ Ended /\ outcome = "success" /\ nchannel > 1 /\ Decoded # None
     /\ (Kind(OutDType) # "f" \/ Decoded[1] = <<>>)) =>
        LET flat == astype(Decoded[1], OutDType)
            N == Len(flat) \div nchannel
        IN  IF Len(flat) % nchannel = 0
            THEN /\ pc = "returned"
                 /\ result[1].ndim = 2
                 /\ Len(result[1].data) = nchannel
                 /\ \A k \in 1..nchannel :
                       /\ Len(result[1].data[k]) = N
                       /\ \A j \in 1..N : result[1].data[k][j] = flat[(j - 1) * nchannel + k]
            ELSE pc = "raised" /\ exc = "ValueError"

(* Two channels of floating point end in the NameError of line 123.         *)
C8_NameErrorOnChannels ==
    /\ pc = "raised" /\ exc = "NameError" /\ nchannel = 2
    /\ Decoded # None /\ Len(Decoded[1]) = 2

(* A two-channel result of an integer type.                                 *)
C8_RowsReturned ==
    /\ pc = "returned" /\ nchannel = 2 /\ Kind(OutDType) = "i"
    /\ result[1].ndim = 2 /\ Len(result[1].data[1]) = 1

C10_OneChildReaped ==
    /\ spawned <= 1
    /\ (spawned = 0) <=> (child = "none")
    /\ pc \in {"check", "decode"} => child = "reaped"
    /\ (Ended /\ spawned = 1)
        => /\ child = "reaped" /\ returncode # None
           /\ ~stdin_open /\ ~stdout_open /\ ~stderr_open
           /\ stdin_pipe = <<>> /\ stdout_pipe = <<>> /\ stderr_pipe = <<>>
    /\ pc = "idle"
        => /\ spawned = 0 /\ command = <<>> /\ returncode = None
           /\ stdout_bytes = <<>> /\ stderr_bytes = <<>> /\ input_left = <<>>
           /\ exc = "none" /\ mes = <<>> /\ result = None
           /\ ~expired /\ outcome = "none"

C10_Witness ==
    /\ pc = "raised" /\ exc = "ValueError" /\ spawned = 1 /\ child = "reaped"
    /\ stdout_bytes # <<>>

=============================================================================
